---- MODULE Spec2Model ----
(***************************************************************************)
(* ChainOfProduct: the protection library (protect, buyer_sign, check,     *)
(* unprotect), the group server that protect consults, and the storage     *)
(* service that keeps protected documents.                                 *)
(*                                                                         *)
(* Cryptography is symbolic: a ciphertext is a term that names the key and *)
(* nonce it was made under, a signature names its signer and message, a    *)
(* hash names its preimage.  A decryption or verification succeeds exactly *)
(* when the names match, which is the contract of the primitives the code  *)
(* calls (AES-GCM, Ed25519, X25519 + HKDF).  Every company has one signing *)
(* key pair and one encryption key pair, named after the company.          *)
(***************************************************************************)
EXTENDS Integers, Sequences, FiniteSets, TLC

VARIABLES
    groups,   \* group server: group_id -> [exists, members] (tables groups, group_members)
    doc,      \* the protected document the client holds (NoDoc before protect)
    tx,       \* the transaction_data that was passed to the protect call that made doc
    res,      \* what the last library call returned or raised
    tampering,\* what has been altered in doc since protect returned it
    db,       \* storage service, table transactions: transaction_id -> row or NoRow
    seq,      \* storage service: number of requests answered so far
    resp,     \* storage service: the last HTTP response
    share_records,        \* storage service, table share_records, in id order
    group_share_records,  \* storage service, table group_share_records, in id order
    pending   \* storage service: worker thread -> the request it is in the middle of

vars == <<groups, doc, tx, res, tampering, db, seq, resp,
          share_records, group_share_records, pending>>
libvars == <<groups, doc, tx, res, tampering>>
appvars == <<db, seq, resp, share_records, group_share_records, pending>>
sharevars == <<share_records, group_share_records>>

----------------------------------------------------------------------------
(* Bounds and input sets *)

MaxTxId == 2       \* transaction ids are 0..MaxTxId
MaxRequests == 4   \* requests the storage service answers in one run
MaxTampers == 2    \* alterations made to one protected document

Companies == {"SellerCo", "BuyerCo", "AuditorCorp"}
GroupIds == {"tech_partners"}
MemberNames == {"AuditorCorp", "BuyerCo"}      \* names given to add_member / remove_member
TxIds == 0..MaxTxId
Rands == {"r1"}                                \* what os.urandom returns in a call

\* key managers (companies whose private keys are on disk) and public key
\* stores (companies whose public keys are known) a call may be given
KeyManagers == {Companies, {"BuyerCo"}}
KeyStores == {Companies, {"SellerCo", "BuyerCo"}, {"SellerCo"}}
\* the (key manager, public key store) pairs protect is called with
KeySetups == {<<Companies, Companies>>, <<Companies, {"SellerCo", "BuyerCo"}>>,
              <<Companies, {"SellerCo"}>>, <<{"BuyerCo"}, Companies>>}
\* the same, and a store without the seller
ProtectSetups == KeySetups \cup {<<Companies, {"BuyerCo"}>>}
\* the threads of the storage service's thread pool that take requests
Workers == {"w1", "w2"}
RecipientLists == {{}, {"AuditorCorp"}}
GroupLists == {{}, {"tech_partners"}}

None == [none |-> TRUE]        \* Python's None / JSON null
NoDoc == [nodoc |-> TRUE]
NoGroup == [exists |-> FALSE, members |-> {}]
NoRow == [norow |-> TRUE]

----------------------------------------------------------------------------
(* Python dicts and JSON.  A dict is its insertion-ordered key list and    *)
(* its key -> value mapping; two dicts are equal when the mappings are.    *)

Range(s) == {s[i] : i \in 1..Len(s)}

\* the field names in lexicographic order, the order sort_keys=True emits
SortedFields == <<"amount", "buyer", "group_id", "id", "note", "product", "seller",
                  "shared_by", "shared_with", "timestamp", "transaction_id", "units">>

Dict(ks, v) == [keys |-> ks, val |-> v]
DictEq(a, b) == a.val = b.val
Has(d, k) == k \in DOMAIN d.val

\* json.dumps(d) without sort_keys: the keys in insertion order
json_dumps_unsorted(d) == [text_keys |-> d.keys, text_val |-> d.val]

\* json.dumps(d, sort_keys=True).encode('utf-8')
json_dumps_sorted(d) ==
    [text_keys |-> SelectSeq(SortedFields, LAMBDA k : k \in Range(d.keys)),
     text_val |-> d.val]

\* json.loads(text.decode('utf-8'))
json_loads(t) == Dict(t.text_keys, t.text_val)

\* base64.b64encode(x).decode('utf-8') and base64.b64decode(s)
b64encode(x) == [b64 |-> x]
\* b64decode raises binascii.Error on text that is not base64
b64decode(s) ==
    IF "b64" \in DOMAIN s THEN s.b64 ELSE [error |-> "binascii.Error", detail |-> "Incorrect padding"]
\* text that is not base64
NotBase64 == [not_base64 |-> TRUE]
\* a byte string with one of its bytes altered
flip(bytes) == [flipped |-> bytes]

\* str(x) in an f-string
str(x) == [str |-> x]

----------------------------------------------------------------------------
(* crypto.py *)

Error(kind, detail) == [error |-> kind, detail |-> detail]
IsError(x) == "error" \in DOMAIN x
CryptoError == Error("CryptoError", "Decryption failed")

\* the key pairs a key manager / public key store hands out for a company
signing_private_key(c) == [sign_key |-> c]
signing_public_key(c) == [sign_key |-> c]
encryption_private_key(c) == [kind |-> "company", of |-> c, r |-> 0]
encryption_public_key(c) == [kind |-> "company", of |-> c, r |-> 0]
\* X25519PrivateKey.generate() inside wrap_key_x25519
ephemeral_key(c, r) == [kind |-> "ephemeral", of |-> c, r |-> r]

sign_data(private_key, data) == [signed_by |-> private_key.sign_key, message |-> data]

\* verify_signature that looks at the signer only
verify_signature_any_message(public_key, signature, data) ==
    /\ "signed_by" \in DOMAIN signature
    /\ signature.signed_by = public_key.sign_key

\* public_key.verify raises on bytes that are no signature of data; caught, False
verify_signature(public_key, signature, data) ==
    /\ "signed_by" \in DOMAIN signature
    /\ signature.signed_by = public_key.sign_key
    /\ signature.message = data

hash_data(data) == [sha256 |-> data]

generate_symmetric_key(r) == [K_T |-> r]

\* X25519 exchange: the shared secret of a private key and a public key
exchange(private_key, public_key) == {private_key, public_key}

\* HKDF(SHA256, length 32, salt None, info).derive(secret)
HKDF(info, secret) == [info |-> info, secret |-> secret]

encrypt_aes_gcm(key, plaintext, r) ==
    [ciphertext |-> b64encode([aead_key |-> key, aead_nonce |-> [nonce |-> r], data |-> plaintext]),
     nonce |-> b64encode([nonce |-> r])]

\* the two b64decode calls are outside the try: what they raise is not a CryptoError
decrypt_aes_gcm(key, encrypted_data) ==
    IF "nonce" \notin DOMAIN encrypted_data THEN Error("KeyError", "nonce")
    ELSE IF "ciphertext" \notin DOMAIN encrypted_data THEN Error("KeyError", "ciphertext")
    ELSE LET nonce == b64decode(encrypted_data.nonce)
             ciphertext == b64decode(encrypted_data.ciphertext)
         IN  IF IsError(nonce) THEN nonce
             ELSE IF IsError(ciphertext) THEN ciphertext
             ELSE IF /\ "aead_key" \in DOMAIN ciphertext
                     /\ ciphertext.aead_key = key
                     /\ ciphertext.aead_nonce = nonce
             THEN ciphertext.data
             ELSE CryptoError

\* wrap_key_x25519 with an HKDF info that unwrap_key_x25519 does not use
wrap_key_other_info(recipient_public_key, key_to_wrap, r) ==
    LET ephemeral == ephemeral_key(recipient_public_key.of, r)
        shared_secret == exchange(ephemeral, recipient_public_key)
        wrapping_key == HKDF(<<"key_wrap">>, shared_secret)
    IN  [ephemeral_public_key |-> b64encode(ephemeral),
         encrypted_key |-> encrypt_aes_gcm(wrapping_key, key_to_wrap, r)]

wrap_key_x25519(recipient_public_key, key_to_wrap, r) ==
    LET ephemeral == ephemeral_key(recipient_public_key.of, r)
        shared_secret == exchange(ephemeral, recipient_public_key)
        wrapping_key == HKDF(<<"key_wrapping">>, shared_secret)
    IN  [ephemeral_public_key |-> b64encode(ephemeral),
         encrypted_key |-> encrypt_aes_gcm(wrapping_key, key_to_wrap, r)]

unwrap_key_x25519(recipient_private_key, wrapped_data) ==
    LET ephemeral_public == b64decode(wrapped_data.ephemeral_public_key)
        shared_secret == exchange(recipient_private_key, ephemeral_public)
        wrapping_key == HKDF(<<"key_wrapping">>, shared_secret)
    IN  decrypt_aes_gcm(wrapping_key, wrapped_data.encrypted_key)

\* derive_group_key whose info leaves the group out
derive_group_key_any_group(transaction_key, group_id, tx_id) ==
    HKDF(<<"group:", ":tx:", tx_id>>, transaction_key)

derive_group_key(transaction_key, group_id, tx_id) ==
    HKDF(<<"group:", group_id, ":tx:", tx_id>>, transaction_key)

----------------------------------------------------------------------------
(* keymanager.py: a KeyManager is the set of companies whose private keys  *)
(* are in its directory, a PublicKeyStore the set of companies it knows.   *)

load_signing_private_key(km, company_name) ==
    IF company_name \in km THEN signing_private_key(company_name)
    ELSE Error("FileNotFoundError", "Signing private key not found")

load_encryption_private_key(km, company_name) ==
    IF company_name \in km THEN encryption_private_key(company_name)
    ELSE Error("FileNotFoundError", "Encryption private key not found")

get_signing_public_key(pks, company_name) ==
    IF company_name \in pks THEN signing_public_key(company_name)
    ELSE Error("KeyError", "Public keys not found")

get_encryption_public_key(pks, company_name) ==
    IF company_name \in pks THEN encryption_public_key(company_name)
    ELSE Error("KeyError", "Public keys not found")

----------------------------------------------------------------------------
(* groupserver/main.py *)

group_exists(dir, group_id) == group_id \in DOMAIN dir /\ dir[group_id].exists

\* GET /groups/{group_id}/members
get_members(dir, group_id) ==
    IF group_exists(dir, group_id)
    THEN [status_code |-> 200, members |-> dir[group_id].members]
    ELSE [status_code |-> 404, members |-> {}]

\* POST /groups/create
create_group(group_id, members) ==
    /\ groups' = IF group_exists(groups, group_id) THEN groups
                 ELSE [groups EXCEPT ![group_id] = [exists |-> TRUE, members |-> members]]
    /\ UNCHANGED <<doc, tx, res, tampering, appvars>>

\* add_member that also hands the new member an envelope of the issued document
add_member_rekeying(group_id, member) ==
    /\ groups' = IF group_exists(groups, group_id)
                 THEN [groups EXCEPT ![group_id].members = @ \cup {member}]
                 ELSE groups
    /\ doc' = IF doc # NoDoc /\ group_id \in DOMAIN doc.group_wrapped_keys
              THEN [doc EXCEPT !.group_wrapped_keys[group_id].members =
                       [m \in DOMAIN @ \cup {member} |->
                           IF m \in DOMAIN @ THEN @[m]
                           ELSE wrap_key_x25519(encryption_public_key(m), None, "r1")]]
              ELSE doc
    /\ UNCHANGED <<tx, res, tampering, appvars>>

\* POST /groups/{group_id}/add_member
add_member(group_id, member) ==
    /\ groups' = IF group_exists(groups, group_id)
                 THEN [groups EXCEPT ![group_id].members = @ \cup {member}]
                 ELSE groups
    /\ UNCHANGED <<doc, tx, res, tampering, appvars>>

\* POST /groups/{group_id}/remove_member
remove_member(group_id, member) ==
    /\ groups' = IF group_exists(groups, group_id)
                 THEN [groups EXCEPT ![group_id].members = @ \ {member}]
                 ELSE groups
    /\ UNCHANGED <<doc, tx, res, tampering, appvars>>

----------------------------------------------------------------------------
(* library.py *)

required_list == <<"id", "timestamp", "seller", "buyer", "product", "units", "amount">>
required_fields == Range(required_list)

\* protected_doc with an entry for every requested group, known to the
\* directory or not
protected_doc_every_group(transaction_data, seller_name, buyer_name, pks, recipients, grps, dir, r) ==
    LET K_T == generate_symmetric_key(r)
        plaintext == json_dumps_sorted(transaction_data)
        tx_hash == hash_data(plaintext)
        seller_signature == sign_data(signing_private_key(seller_name), tx_hash)
        named == {seller_name, buyer_name} \cup {c \in recipients : c \in pks}
        tx_id == str(transaction_data.val["id"])
        members(g) == IF get_members(dir, g).status_code = 200
                      THEN {m \in get_members(dir, g).members : m \in pks}
                      ELSE {}
    IN  [version |-> "1.0",
         transaction_id |-> transaction_data.val["id"],
         encrypted_transaction |-> encrypt_aes_gcm(K_T, plaintext, r),
         signatures |-> [seller |-> [company |-> seller_name,
                                     signature |-> b64encode(seller_signature)],
                         buyer |-> None],
         wrapped_keys |->
             [c \in named |-> wrap_key_x25519(get_encryption_public_key(pks, c), K_T, r)],
         group_wrapped_keys |->
             [g \in grps |->
                 [members |->
                     [m \in members(g) |->
                         wrap_key_x25519(get_encryption_public_key(pks, m),
                                         derive_group_key(K_T, g, tx_id), r)]]],
         transaction_hash |-> b64encode(tx_hash)]

\* protected_doc that wraps the buyer's envelope around a key of its own
protected_doc_buyer_key(transaction_data, seller_name, buyer_name, pks, recipients, grps, dir, r) ==
    LET K_T == generate_symmetric_key(r)
        plaintext == json_dumps_sorted(transaction_data)
        tx_hash == hash_data(plaintext)
        seller_signature == sign_data(signing_private_key(seller_name), tx_hash)
        named == {seller_name, buyer_name} \cup {c \in recipients : c \in pks}
        tx_id == str(transaction_data.val["id"])
        fetched == {g \in grps : get_members(dir, g).status_code = 200}
    IN  [version |-> "1.0",
         transaction_id |-> transaction_data.val["id"],
         encrypted_transaction |-> encrypt_aes_gcm(K_T, plaintext, r),
         signatures |-> [seller |-> [company |-> seller_name,
                                     signature |-> b64encode(seller_signature)],
                         buyer |-> None],
         wrapped_keys |->
             [c \in named |->
                 wrap_key_x25519(get_encryption_public_key(pks, c),
                                 IF c = buyer_name
                                 THEN generate_symmetric_key("buyer")
                                 ELSE K_T, r)],
         group_wrapped_keys |->
             [g \in fetched |->
                 [members |->
                     [m \in {m \in get_members(dir, g).members : m \in pks} |->
                         wrap_key_x25519(get_encryption_public_key(pks, m),
                                         derive_group_key(K_T, g, tx_id), r)]]],
         transaction_hash |-> b64encode(tx_hash)]

\* the part of protect after the mandatory keys resolved
protected_doc(transaction_data, seller_name, buyer_name, pks, recipients, grps, dir, r) ==
    LET K_T == generate_symmetric_key(r)
        plaintext == json_dumps_sorted(transaction_data)
        tx_hash == hash_data(plaintext)
        seller_signature == sign_data(signing_private_key(seller_name), tx_hash)
        named == {seller_name, buyer_name} \cup {c \in recipients : c \in pks}
        tx_id == str(transaction_data.val["id"])
        fetched == {g \in grps : get_members(dir, g).status_code = 200}
    IN  [version |-> "1.0",
         transaction_id |-> transaction_data.val["id"],
         encrypted_transaction |-> encrypt_aes_gcm(K_T, plaintext, r),
         signatures |-> [seller |-> [company |-> seller_name,
                                     signature |-> b64encode(seller_signature)],
                         buyer |-> None],
         wrapped_keys |->
             [c \in named |-> wrap_key_x25519(get_encryption_public_key(pks, c), K_T, r)],
         group_wrapped_keys |->
             [g \in fetched |->
                 [members |->
                     [m \in {m \in get_members(dir, g).members : m \in pks} |->
                         wrap_key_x25519(get_encryption_public_key(pks, m),
                                         derive_group_key(K_T, g, tx_id), r)]]],
         transaction_hash |-> b64encode(tx_hash)]

\* the first field of the required_fields list that transaction_data lacks
first_missing(transaction_data) ==
    LET missing == {i \in 1..Len(required_list) : ~Has(transaction_data, required_list[i])}
    IN  required_list[CHOOSE i \in missing : \A j \in missing : i <= j]

\* protect without the comparison of the seller and buyer fields with the arguments
protect_unvalidated(transaction_data, seller_name, buyer_name, km, pks, recipients, grps, dir, r) ==
    IF \E f \in required_fields : ~Has(transaction_data, f)
    THEN Error("ProtectionError", "Missing required field: " \o first_missing(transaction_data))
    ELSE IF IsError(load_signing_private_key(km, seller_name))
    THEN load_signing_private_key(km, seller_name)
    ELSE IF IsError(get_encryption_public_key(pks, seller_name))
    THEN get_encryption_public_key(pks, seller_name)
    ELSE IF IsError(get_encryption_public_key(pks, buyer_name))
    THEN get_encryption_public_key(pks, buyer_name)
    ELSE protected_doc(transaction_data, seller_name, buyer_name, pks, recipients, grps, dir, r)

\* protect that skips a buyer without public key as it skips a recipient
protect_buyer_skipped(transaction_data, seller_name, buyer_name, km, pks, recipients, grps, dir, r) ==
    IF \E f \in required_fields : ~Has(transaction_data, f)
    THEN Error("ProtectionError", "Missing required field: " \o first_missing(transaction_data))
    ELSE IF transaction_data.val["seller"] # seller_name
    THEN Error("ProtectionError", "Seller name mismatch: " \o seller_name
                                      \o " vs " \o transaction_data.val["seller"])
    ELSE IF transaction_data.val["buyer"] # buyer_name
    THEN Error("ProtectionError", "Buyer name mismatch: " \o buyer_name
                                      \o " vs " \o transaction_data.val["buyer"])
    ELSE IF IsError(load_signing_private_key(km, seller_name))
    THEN load_signing_private_key(km, seller_name)
    ELSE IF IsError(get_encryption_public_key(pks, seller_name))
    THEN get_encryption_public_key(pks, seller_name)
    ELSE IF IsError(get_encryption_public_key(pks, buyer_name))
    THEN LET d == protected_doc(transaction_data, seller_name, buyer_name,
                                pks \cup {buyer_name}, recipients, grps, dir, r)
         IN  [d EXCEPT !.wrapped_keys = [c \in DOMAIN @ \ {buyer_name} |-> @[c]]]
    ELSE protected_doc(transaction_data, seller_name, buyer_name, pks, recipients, grps, dir, r)

protect(transaction_data, seller_name, buyer_name, km, pks, recipients, grps, dir, r) ==
    IF \E f \in required_fields : ~Has(transaction_data, f)
    THEN Error("ProtectionError", "Missing required field: " \o first_missing(transaction_data))
    ELSE IF transaction_data.val["seller"] # seller_name
    THEN Error("ProtectionError", "Seller name mismatch: " \o seller_name
                                      \o " vs " \o transaction_data.val["seller"])
    ELSE IF transaction_data.val["buyer"] # buyer_name
    THEN Error("ProtectionError", "Buyer name mismatch: " \o buyer_name
                                      \o " vs " \o transaction_data.val["buyer"])
    ELSE IF IsError(load_signing_private_key(km, seller_name))
    THEN load_signing_private_key(km, seller_name)
    ELSE IF IsError(get_encryption_public_key(pks, seller_name))
    THEN get_encryption_public_key(pks, seller_name)
    ELSE IF IsError(get_encryption_public_key(pks, buyer_name))
    THEN get_encryption_public_key(pks, buyer_name)
    ELSE protected_doc(transaction_data, seller_name, buyer_name, pks, recipients, grps, dir, r)

\* buyer_sign that signs the base64 text of the hash instead of the hash
buyer_sign_encoded_hash(d, buyer_name, km) ==
    LET buyer_sign_key == load_signing_private_key(km, buyer_name)
    IN  IF IsError(buyer_sign_key) THEN buyer_sign_key
        ELSE [d EXCEPT !.signatures.buyer =
                 [company |-> buyer_name,
                  signature |-> b64encode(sign_data(buyer_sign_key, d.transaction_hash))]]

buyer_sign(d, buyer_name, km) ==
    LET tx_hash == b64decode(d.transaction_hash)
        buyer_sign_key == load_signing_private_key(km, buyer_name)
    IN  IF IsError(buyer_sign_key) THEN buyer_sign_key
        ELSE [d EXCEPT !.signatures.buyer =
                 [company |-> buyer_name,
                  signature |-> b64encode(sign_data(buyer_sign_key, tx_hash))]]

\* check_signature that treats a signer without public key as a failed verification
check_signature_strict(sig_data, who, tx_hash, pks) ==
    LET role == IF who = "Seller" THEN "seller" ELSE "buyer"
        key == role \o "_signature"
    IN  IF "company" \notin DOMAIN sig_data THEN Error("KeyError", "company")
        ELSE IF "signature" \notin DOMAIN sig_data THEN Error("KeyError", "signature")
        ELSE IF IsError(b64decode(sig_data.signature)) THEN b64decode(sig_data.signature)
        ELSE LET pub_key == get_signing_public_key(pks, sig_data.company)
             IN  IF ~IsError(pub_key)
                    /\ verify_signature(pub_key, b64decode(sig_data.signature), tx_hash)
                 THEN [valid |-> TRUE, errors |-> <<>>, warnings |-> <<>>,
                       details |-> key :> "valid"]
                 ELSE [valid |-> FALSE, errors |-> <<who \o " signature verification failed">>,
                       warnings |-> <<>>, details |-> key :> "invalid"]

\* the seller or buyer part of check: what it adds to valid, errors, warnings and
\* details, or the exception it raises
check_signature(sig_data, who, tx_hash, pks) ==
    LET role == IF who = "Seller" THEN "seller" ELSE "buyer"
        key == role \o "_signature"
    IN  IF "company" \notin DOMAIN sig_data THEN Error("KeyError", "company")
        ELSE IF "signature" \notin DOMAIN sig_data THEN Error("KeyError", "signature")
        ELSE IF IsError(b64decode(sig_data.signature)) THEN b64decode(sig_data.signature)
        ELSE LET company == sig_data.company
                 signature == b64decode(sig_data.signature)
                 pub_key == get_signing_public_key(pks, company)
             IN  IF IsError(pub_key)
                 THEN [valid |-> TRUE, errors |-> <<>>,
                       warnings |-> <<"Cannot verify " \o role
                                        \o " signature: public key not found for " \o company>>,
                       details |-> key :> "cannot_verify"]
                 ELSE IF verify_signature(pub_key, signature, tx_hash)
                 THEN [valid |-> TRUE, errors |-> <<>>, warnings |-> <<>>,
                       details |-> key :> "valid"]
                 ELSE [valid |-> FALSE, errors |-> <<who \o " signature verification failed">>,
                       warnings |-> <<>>, details |-> key :> "invalid"]

\* results["details"] with no key set
NoDetails == [k \in {} |-> ""]

\* results after one more finding
Found(results, finding) ==
    [valid |-> results.valid /\ finding.valid,
     errors |-> results.errors \o finding.errors,
     warnings |-> results.warnings \o finding.warnings,
     details |-> finding.details @@ results.details]

\* check without its try: the exception leaves check
Uncaught(results, e) == e

\* the except branch of check: what was collected so far, and the exception
Caught(results, e) ==
    [valid |-> FALSE,
     errors |-> Append(results.errors, "Verification error: " \o e.error),
     warnings |-> results.warnings,
     details |-> results.details]

\* check that stops at a missing seller signature
check_seller_stops(d, pks) ==
    LET results == [valid |-> TRUE, errors |-> <<>>,
                    warnings |-> IF "version" \in DOMAIN d /\ d.version = "1.0" THEN <<>>
                                 ELSE <<"Unknown version">>,
                    details |-> NoDetails]
    IN  IF "transaction_hash" \notin DOMAIN d
        THEN [raised |-> TRUE, results |-> Caught(results, Error("KeyError", "transaction_hash"))]
        ELSE IF IsError(b64decode(d.transaction_hash))
        THEN [raised |-> TRUE, results |-> Caught(results, b64decode(d.transaction_hash))]
        ELSE IF "signatures" \notin DOMAIN d
        THEN [raised |-> TRUE, results |-> Caught(results, Error("KeyError", "signatures"))]
        ELSE IF d.signatures.seller = None
        THEN [raised |-> TRUE,
              results |-> Found(results, [valid |-> FALSE,
                                          errors |-> <<"Seller signature missing">>,
                                          warnings |-> <<>>, details |-> NoDetails])]
        ELSE LET seller == check_signature(d.signatures.seller, "Seller",
                                           b64decode(d.transaction_hash), pks)
             IN  IF IsError(seller)
                 THEN [raised |-> TRUE, results |-> Caught(results, seller)]
                 ELSE [raised |-> FALSE, results |-> Found(results, seller)]

\* check up to and including the seller signature
check_seller(d, pks) ==
    LET results == [valid |-> TRUE, errors |-> <<>>,
                    warnings |-> IF "version" \in DOMAIN d /\ d.version = "1.0" THEN <<>>
                                 ELSE <<"Unknown version">>,
                    details |-> NoDetails]
    IN  IF "transaction_hash" \notin DOMAIN d
        THEN [raised |-> TRUE, results |-> Caught(results, Error("KeyError", "transaction_hash"))]
        ELSE IF IsError(b64decode(d.transaction_hash))
        THEN [raised |-> TRUE, results |-> Caught(results, b64decode(d.transaction_hash))]
        ELSE IF "signatures" \notin DOMAIN d
        THEN [raised |-> TRUE, results |-> Caught(results, Error("KeyError", "signatures"))]
        ELSE IF d.signatures.seller = None
        THEN [raised |-> FALSE,
              results |-> Found(results, [valid |-> FALSE,
                                          errors |-> <<"Seller signature missing">>,
                                          warnings |-> <<>>, details |-> NoDetails])]
        ELSE LET seller == check_signature(d.signatures.seller, "Seller",
                                           b64decode(d.transaction_hash), pks)
             IN  IF IsError(seller)
                 THEN [raised |-> TRUE, results |-> Caught(results, seller)]
                 ELSE [raised |-> FALSE, results |-> Found(results, seller)]

\* check_buyer that records the shape error without clearing valid
check_buyer_shape_unflagged(d, pks, results) ==
    LET buyer == IF d.signatures.buyer # None
                 THEN check_signature(d.signatures.buyer, "Buyer",
                                      b64decode(d.transaction_hash), pks)
                 ELSE [valid |-> TRUE, errors |-> <<>>,
                       warnings |-> <<"Buyer signature not yet added">>,
                       details |-> "buyer_signature" :> "missing"]
        counts == [valid |-> TRUE, errors |-> <<>>, warnings |-> <<>>,
                   details |->
                       [individual_recipients |->
                            IF "wrapped_keys" \in DOMAIN d
                            THEN Cardinality(DOMAIN d.wrapped_keys) ELSE 0,
                        groups |->
                            IF "group_wrapped_keys" \in DOMAIN d
                            THEN Cardinality(DOMAIN d.group_wrapped_keys) ELSE 0]]
        shape == [valid |-> TRUE,
                  errors |-> <<"Encrypted transaction missing required fields">>,
                  warnings |-> <<>>, details |-> NoDetails]
    IN  IF IsError(buyer) THEN Caught(results, buyer)
        ELSE LET counted == Found(Found(results, buyer), counts)
             IN  IF "encrypted_transaction" \notin DOMAIN d
                 THEN Caught(counted, Error("KeyError", "encrypted_transaction"))
                 ELSE IF {"ciphertext", "nonce"} \subseteq DOMAIN d.encrypted_transaction
                 THEN counted
                 ELSE Found(counted, shape)

\* check from the buyer signature on
check_buyer(d, pks, results) ==
    LET buyer == IF d.signatures.buyer # None
                 THEN check_signature(d.signatures.buyer, "Buyer",
                                      b64decode(d.transaction_hash), pks)
                 ELSE [valid |-> TRUE, errors |-> <<>>,
                       warnings |-> <<"Buyer signature not yet added">>,
                       details |-> "buyer_signature" :> "missing"]
        counts == [valid |-> TRUE, errors |-> <<>>, warnings |-> <<>>,
                   details |->
                       [individual_recipients |->
                            IF "wrapped_keys" \in DOMAIN d
                            THEN Cardinality(DOMAIN d.wrapped_keys) ELSE 0,
                        groups |->
                            IF "group_wrapped_keys" \in DOMAIN d
                            THEN Cardinality(DOMAIN d.group_wrapped_keys) ELSE 0]]
        shape == [valid |-> FALSE,
                  errors |-> <<"Encrypted transaction missing required fields">>,
                  warnings |-> <<>>, details |-> NoDetails]
    IN  IF IsError(buyer) THEN Caught(results, buyer)
        ELSE LET counted == Found(Found(results, buyer), counts)
             IN  IF "encrypted_transaction" \notin DOMAIN d
                 THEN Caught(counted, Error("KeyError", "encrypted_transaction"))
                 ELSE IF {"ciphertext", "nonce"} \subseteq DOMAIN d.encrypted_transaction
                 THEN counted
                 ELSE Found(counted, shape)

check(d, pks) ==
    LET seller == check_seller(d, pks)
    IN  IF seller.raised THEN seller.results
        ELSE check_buyer(d, pks, seller.results)

NoAccess == Error("ProtectionError", "No access granted")
GroupNotImplemented == Error("ProtectionError", "Group-based decryption not fully implemented")

\* the tail of unprotect, once K_T is in hand
decrypt_transaction(d, K_T, access_method) ==
    LET plaintext == IF "encrypted_transaction" \in DOMAIN d
                     THEN decrypt_aes_gcm(K_T, d.encrypted_transaction)
                     ELSE Error("KeyError", "encrypted_transaction")
    IN  IF IsError(plaintext) THEN plaintext
        ELSE [transaction |-> json_loads(plaintext),
              access_method |-> access_method,
              verified |-> TRUE]

\* the group branch of unprotect, for a member of group g
unprotect_group(d, g, company_name, km) ==
    LET enc_private_key == load_encryption_private_key(km, company_name)
        group_key == unwrap_key_x25519(enc_private_key, d.group_wrapped_keys[g].members[company_name])
    IN  IF IsError(enc_private_key) THEN enc_private_key
        ELSE IF IsError(group_key) THEN group_key
        ELSE GroupNotImplemented

\* unprotect that loads the caller's private key before it looks for an envelope
unprotect_key_first(d, company_name, km) ==
    LET enc_private_key == load_encryption_private_key(km, company_name)
    IN  IF IsError(enc_private_key) THEN enc_private_key
        ELSE IF company_name \in DOMAIN d.wrapped_keys
        THEN LET K_T == unwrap_key_x25519(enc_private_key, d.wrapped_keys[company_name])
             IN  IF IsError(K_T) THEN K_T ELSE decrypt_transaction(d, K_T, "individual")
        ELSE LET mine == {g \in DOMAIN d.group_wrapped_keys :
                             company_name \in DOMAIN d.group_wrapped_keys[g].members}
             IN  IF mine # {}
                 THEN unprotect_group(d, CHOOSE g \in mine : TRUE, company_name, km)
                 ELSE NoAccess

\* unprotect that tries the group entries when the caller's own envelope fails
unprotect_fall_through(d, company_name, km) ==
    LET enc_private_key == load_encryption_private_key(km, company_name)
        mine == {g \in DOMAIN d.group_wrapped_keys :
                    company_name \in DOMAIN d.group_wrapped_keys[g].members}
        by_group == IF mine # {}
                    THEN unprotect_group(d, CHOOSE g \in mine : TRUE, company_name, km)
                    ELSE NoAccess
    IN  IF company_name \in DOMAIN d.wrapped_keys
        THEN IF IsError(enc_private_key) THEN enc_private_key
             ELSE LET K_T == unwrap_key_x25519(enc_private_key, d.wrapped_keys[company_name])
                  IN  IF IsError(K_T) THEN by_group
                      ELSE decrypt_transaction(d, K_T, "individual")
        ELSE by_group

\* unprotect that looks for a group entry of the caller first
unprotect_group_first(d, company_name, km) ==
    LET mine == {g \in DOMAIN d.group_wrapped_keys :
                    company_name \in DOMAIN d.group_wrapped_keys[g].members}
    IN  IF mine # {}
        THEN unprotect_group(d, CHOOSE g \in mine : TRUE, company_name, km)
        ELSE IF company_name \in DOMAIN d.wrapped_keys
        THEN LET enc_private_key == load_encryption_private_key(km, company_name)
                 K_T == unwrap_key_x25519(enc_private_key, d.wrapped_keys[company_name])
             IN  IF IsError(enc_private_key) THEN enc_private_key
                 ELSE IF IsError(K_T) THEN K_T
                 ELSE decrypt_transaction(d, K_T, "individual")
        ELSE NoAccess

unprotect(d, company_name, km) ==
    IF company_name \in DOMAIN d.wrapped_keys
    THEN LET enc_private_key == load_encryption_private_key(km, company_name)
             K_T == unwrap_key_x25519(enc_private_key, d.wrapped_keys[company_name])
         IN  IF IsError(enc_private_key) THEN enc_private_key
             ELSE IF IsError(K_T) THEN K_T
             ELSE decrypt_transaction(d, K_T, "individual")
    ELSE LET mine == {g \in DOMAIN d.group_wrapped_keys :
                         company_name \in DOMAIN d.group_wrapped_keys[g].members}
         IN  IF mine # {}
             THEN unprotect_group(d, CHOOSE g \in mine : TRUE, company_name, km)
             ELSE NoAccess

----------------------------------------------------------------------------
(* The inputs of the library calls *)

FileOrder == <<"id", "timestamp", "seller", "buyer", "product", "units", "amount">>

\* scenario S1 of the specification, with the id left open
Transaction(id) ==
    Dict(FileOrder,
         [id |-> id, timestamp |-> 1766336340, seller |-> "SellerCo", buyer |-> "BuyerCo",
          product |-> "Indium", units |-> 40000, amount |-> 90000000])

\* the same without its last field
Incomplete(id) ==
    Dict(SubSeq(FileOrder, 1, 6),
         [id |-> id, timestamp |-> 1766336340, seller |-> "SellerCo", buyer |-> "BuyerCo",
          product |-> "Indium", units |-> 40000])

\* the same without one field
Lacking(id, field) ==
    Dict(SelectSeq(FileOrder, LAMBDA k : k # field),
         [k \in DOMAIN Transaction(id).val \ {field} |-> Transaction(id).val[k]])

\* (transaction_data, seller_name, buyer_name) of a protect call: the seller
\* client's calls, then a call without a required field and calls under another name
ProtectCalls == {<<Transaction(i), "SellerCo", "BuyerCo">> : i \in TxIds}
RejectedCalls ==
    {<<Incomplete(0), "SellerCo", "BuyerCo">>,
     <<Transaction(0), "AuditorCorp", "BuyerCo">>,
     <<Transaction(0), "SellerCo", "AuditorCorp">>}
\* calls without one required field, each under the right and under another name
InvalidCalls ==
    RejectedCalls
    \cup {<<Lacking(1, f), "SellerCo", "BuyerCo">> : f \in required_fields}
    \cup {<<Lacking(1, "seller"), "AuditorCorp", "BuyerCo">>}
BuyerNames == {"BuyerCo", "AuditorCorp"}

Result(op, who, keys, out) == [op |-> op, who |-> who, keys |-> keys, out |-> out]
\* a call that returned the document (kept in doc)
Returned == [returned |-> "protected_doc"]
Outcome(out) == IF IsError(out) THEN out ELSE Returned
\* a protect call: its arguments and what it returned or raised
ProtectResult(T, seller_name, buyer_name, km, pks, recipients, grps, out) ==
    [op |-> "protect", who |-> seller_name, keys |-> pks, out |-> Outcome(out),
     transaction_data |-> T, buyer_name |-> buyer_name, key_manager |-> km,
     recipients |-> recipients, groups |-> grps]

----------------------------------------------------------------------------
(* The library calls as steps of a client *)

\* a client that attaches the product to the document it keeps
DoProtectWithProduct(T, seller_name, buyer_name, km, pks, recipients, grps, r) ==
    LET out == protect(T, seller_name, buyer_name, km, pks, recipients, grps, groups, r)
    IN  /\ res' = ProtectResult(T, seller_name, buyer_name, km, pks, recipients, grps, out)
        /\ IF IsError(out)
           THEN UNCHANGED <<doc, tx, tampering>>
           ELSE /\ doc' = [f \in DOMAIN out \cup {"product"} |->
                              IF f = "product" THEN T.val["product"] ELSE out[f]]
                /\ tx' = T
                /\ tampering' = {}
        /\ UNCHANGED <<groups, appvars>>

DoProtect(T, seller_name, buyer_name, km, pks, recipients, grps, r) ==
    LET out == protect(T, seller_name, buyer_name, km, pks, recipients, grps, groups, r)
    IN  /\ res' = ProtectResult(T, seller_name, buyer_name, km, pks, recipients, grps, out)
        /\ IF IsError(out)
           THEN UNCHANGED <<doc, tx, tampering>>
           ELSE doc' = out /\ tx' = T /\ tampering' = {}
        /\ UNCHANGED <<groups, appvars>>

DoBuyerSign(buyer_name, km) ==
    /\ doc # NoDoc
    /\ LET out == buyer_sign(doc, buyer_name, km)
       IN  /\ res' = Result("buyer_sign", buyer_name, km, Outcome(out))
           /\ doc' = IF IsError(out) THEN doc ELSE out
    /\ UNCHANGED <<groups, tx, tampering, appvars>>

DoCheck(pks) ==
    /\ doc # NoDoc
    /\ res' = Result("check", "", pks, check(doc, pks))
    /\ UNCHANGED <<groups, doc, tx, tampering, appvars>>

DoUnprotect(company_name, km) ==
    /\ doc # NoDoc
    /\ res' = Result("unprotect", company_name, km, unprotect(doc, company_name, km))
    /\ UNCHANGED <<groups, doc, tx, tampering, appvars>>

InitLib ==
    /\ groups = [g \in GroupIds |-> NoGroup]
    /\ doc = NoDoc
    /\ tx = None
    /\ res = Result("init", "", {}, None)
    /\ tampering = {}

InitApp ==
    /\ db = [i \in TxIds |-> NoRow]
    /\ seq = 0
    /\ resp = [seq |-> 0, op |-> "none", transaction_id |-> 0, status_code |-> 0]
    /\ share_records = <<>>
    /\ group_share_records = <<>>
    /\ pending = [w \in Workers |-> None]

Init == InitLib /\ InitApp

Next ==
    \/ \E g \in GroupIds, ms \in {{}, {"AuditorCorp"}} : create_group(g, ms)
    \/ \E g \in GroupIds, m \in MemberNames : add_member(g, m)
    \/ \E g \in GroupIds, m \in MemberNames : remove_member(g, m)
    \/ \E call \in ProtectCalls, keys \in KeySetups, rc \in RecipientLists,
          gl \in GroupLists, r \in Rands :
          DoProtect(call[1], call[2], call[3], keys[1], keys[2], rc, gl, r)
    \/ \E call \in RejectedCalls, r \in Rands :
          DoProtect(call[1], call[2], call[3], Companies, Companies, {}, {}, r)
    \/ \E b \in BuyerNames, km \in KeyManagers : DoBuyerSign(b, km)
    \/ \E pks \in KeyStores : DoCheck(pks)
    \/ \E c \in Companies, km \in KeyManagers : DoUnprotect(c, km)

Spec == Init /\ [][Next]_vars

\* protect alone, on every kind of input, against a changing group directory
NextProtect ==
    \/ \E g \in GroupIds, ms \in {{}, {"AuditorCorp"}} : create_group(g, ms)
    \/ \E g \in GroupIds, m \in MemberNames : add_member(g, m)
    \/ \E g \in GroupIds, m \in MemberNames : remove_member(g, m)
    \/ \E call \in ProtectCalls, keys \in ProtectSetups, rc \in RecipientLists,
          gl \in GroupLists, r \in Rands :
          DoProtect(call[1], call[2], call[3], keys[1], keys[2], rc, gl, r)
    \/ \E call \in InvalidCalls, km \in KeyManagers, r \in Rands :
          DoProtect(call[1], call[2], call[3], km, Companies, {}, {}, r)

SpecProtect == Init /\ [][NextProtect]_vars

----------------------------------------------------------------------------
(* A protected document that is altered between the calls: on the wire, in  *)
(* the storage service's database, or in the file the CLI reads it from.    *)

AlteredFields == {"ciphertext", "transaction_hash", "seller_signature", "buyer_signature"}
Rewrites == {"version", "no_seller_signature", "not_base64_hash", "not_base64_signature",
             "no_transaction_hash", "no_signatures", "no_encrypted_transaction", "no_nonce"}

Without(d, field) == [f \in DOMAIN d \ {field} |-> d[f]]
HasSignature(d, role) ==
    /\ "signatures" \in DOMAIN d
    /\ d.signatures[role] # None
    /\ ~IsError(b64decode(d.signatures[role].signature))
HasHash(d) == "transaction_hash" \in DOMAIN d /\ ~IsError(b64decode(d.transaction_hash))

\* the document is replaced by d, marked as altered in what
Altered(what, d) ==
    /\ doc # NoDoc
    /\ what \notin tampering
    /\ Cardinality(tampering) < MaxTampers
    /\ doc' = d
    /\ tampering' = tampering \cup {what}
    /\ res' = Result("alter", what, {}, None)
    /\ UNCHANGED <<groups, tx, appvars>>

\* one byte of a base64-encoded field is altered; the field still decodes
AlterBytes(field) ==
    /\ doc # NoDoc
    /\ CASE field = "ciphertext" ->
              /\ "encrypted_transaction" \in DOMAIN doc
              /\ Altered(field, [doc EXCEPT !.encrypted_transaction.ciphertext =
                                               b64encode(flip(b64decode(@)))])
         [] field = "transaction_hash" ->
              /\ HasHash(doc)
              /\ Altered(field, [doc EXCEPT !.transaction_hash = b64encode(flip(b64decode(@)))])
         [] field = "seller_signature" ->
              /\ HasSignature(doc, "seller")
              /\ Altered(field, [doc EXCEPT !.signatures.seller.signature =
                                               b64encode(flip(b64decode(@)))])
         [] field = "buyer_signature" ->
              /\ HasSignature(doc, "buyer")
              /\ Altered(field, [doc EXCEPT !.signatures.buyer.signature =
                                               b64encode(flip(b64decode(@)))])

\* one byte of the ciphertext of company's envelope in wrapped_keys is altered
AlterEnvelope(company) ==
    /\ doc # NoDoc
    /\ company \in DOMAIN doc.wrapped_keys
    /\ Altered("wrapped_key:" \o company,
               [doc EXCEPT !.wrapped_keys[company].encrypted_key.ciphertext =
                              b64encode(flip(b64decode(@)))])

\* one byte of the ciphertext of member's envelope in a group entry is altered
AlterGroupEnvelope(group_id, member) ==
    /\ doc # NoDoc
    /\ group_id \in DOMAIN doc.group_wrapped_keys
    /\ member \in DOMAIN doc.group_wrapped_keys[group_id].members
    /\ Altered("group_wrapped_key:" \o member,
               [doc EXCEPT !.group_wrapped_keys[group_id].members[member].encrypted_key.ciphertext =
                              b64encode(flip(b64decode(@)))])

\* a field is rewritten or left out
Rewrite(how) ==
    /\ doc # NoDoc
    /\ CASE how = "version" -> Altered(how, [doc EXCEPT !.version = "2.0"])
         [] how = "no_seller_signature" ->
              /\ "signatures" \in DOMAIN doc
              /\ Altered(how, [doc EXCEPT !.signatures.seller = None])
         [] how = "not_base64_hash" ->
              /\ "transaction_hash" \in DOMAIN doc
              /\ Altered(how, [doc EXCEPT !.transaction_hash = NotBase64])
         [] how = "not_base64_signature" ->
              /\ "signatures" \in DOMAIN doc
              /\ doc.signatures.seller # None
              /\ Altered(how, [doc EXCEPT !.signatures.seller.signature = NotBase64])
         [] how = "no_transaction_hash" ->
              /\ "transaction_hash" \in DOMAIN doc
              /\ Altered(how, Without(doc, "transaction_hash"))
         [] how = "no_signatures" ->
              /\ "signatures" \in DOMAIN doc
              /\ Altered(how, Without(doc, "signatures"))
         [] how = "no_encrypted_transaction" ->
              /\ "encrypted_transaction" \in DOMAIN doc
              /\ Altered(how, Without(doc, "encrypted_transaction"))
         [] how = "no_nonce" ->
              /\ "encrypted_transaction" \in DOMAIN doc
              /\ "nonce" \in DOMAIN doc.encrypted_transaction
              /\ Altered(how, [doc EXCEPT !.encrypted_transaction = Without(@, "nonce")])

\* the buyer countersigns the document as issued
SignAsIssued(buyer_name, km) ==
    /\ tampering = {}
    /\ DoBuyerSign(buyer_name, km)

NextTamper ==
    \/ \E g \in GroupIds : create_group(g, {"AuditorCorp"})
    \/ \E rc \in RecipientLists, gl \in GroupLists, r \in Rands :
          DoProtect(Transaction(1), "SellerCo", "BuyerCo", Companies, Companies, rc, gl, r)
    \/ \E b \in BuyerNames : SignAsIssued(b, Companies)
    \/ \E field \in AlteredFields : AlterBytes(field)
    \/ \E c \in Companies : AlterEnvelope(c)
    \/ \E g \in GroupIds, m \in MemberNames : AlterGroupEnvelope(g, m)
    \/ \E how \in Rewrites : Rewrite(how)
    \/ \E pks \in KeyStores \cup {{"BuyerCo"}} : DoCheck(pks)
    \/ \E c \in Companies, km \in KeyManagers : DoUnprotect(c, km)

SpecTamper == Init /\ [][NextTamper]_vars

----------------------------------------------------------------------------
(* Properties of the library: protect, buyer_sign, check, unprotect *)

Envelopes(d) == DOMAIN d.wrapped_keys
GroupsOf(d, c) == {g \in DOMAIN d.group_wrapped_keys : c \in DOMAIN d.group_wrapped_keys[g].members}
Unprotected == res.op = "unprotect"
Checked == res.op = "check"

\* C1: for every company R with an entry in wrapped_keys of the document protect
\* made from T, unprotect run by R (R's encryption private key is in the key
\* manager) returns a transaction equal to T, with the same canonical bytes, and
\* access_method "individual".
C1_RoundTrip ==
    (Unprotected /\ res.who \in Envelopes(doc) /\ res.who \in res.keys)
        => /\ ~IsError(res.out)
           /\ DictEq(res.out.transaction, tx)
           /\ json_dumps_sorted(res.out.transaction) = json_dumps_sorted(tx)
           /\ res.out.access_method = "individual"

\* an extra recipient whose key resolved has opened the document
C1_Witness ==
    /\ Unprotected /\ res.who = "AuditorCorp" /\ res.who \in res.keys
    /\ "AuditorCorp" \in Envelopes(doc)
    /\ ~IsError(res.out)

\* C2: a company with no entry in wrapped_keys and in no members map gets the
\* no-access error from unprotect, and no plaintext, whatever keys it holds.
C2_AccessIsolation ==
    (Unprotected /\ res.who \notin Envelopes(doc) /\ GroupsOf(doc, res.who) = {})
        => res.out = NoAccess

\* a company without keys on disk and without any envelope was refused, on a
\* document that does carry a group entry
C2_Witness ==
    /\ Unprotected /\ res.who = "AuditorCorp" /\ res.who \notin res.keys
    /\ "AuditorCorp" \notin Envelopes(doc) /\ GroupsOf(doc, "AuditorCorp") = {}
    /\ DOMAIN doc.group_wrapped_keys # {}
    /\ res.out = NoAccess

\* C3: a company that is in the members map of a group entry, and has no
\* individual envelope, opens the document through the group path: unprotect
\* returns the plaintext with access_method "group:{group_id}".
C3_GroupAccess ==
    (Unprotected /\ res.who \notin Envelopes(doc) /\ GroupsOf(doc, res.who) # {}
        /\ res.who \in res.keys)
        => /\ ~IsError(res.out)
           /\ DictEq(res.out.transaction, tx)
           /\ \E g \in GroupsOf(doc, res.who) : res.out.access_method = <<"group:", g>>

\* C4: a step of the group server (a membership change) leaves the issued
\* document as it is; a company the step added that had no envelope still gets
\* no-access, and a company the step removed keeps the envelope it had.
C4_MembershipAtIssuance ==
    [][(groups' # groups /\ doc # NoDoc) =>
          /\ doc' = doc
          /\ \A g \in GroupIds, c \in Companies, km \in KeyManagers :
                /\ (/\ c \in groups'[g].members \ groups[g].members
                    /\ c \notin Envelopes(doc) /\ GroupsOf(doc, c) = {})
                       => unprotect(doc', c, km) = NoAccess
                /\ (/\ c \in groups[g].members \ groups'[g].members
                    /\ g \in GroupsOf(doc, c))
                       => g \in GroupsOf(doc', c)]_vars

\* the late joiner: a member of the group now, with no envelope in the document
\* issued for that group, has been refused
C4_Witness ==
    /\ Unprotected /\ res.who = "AuditorCorp" /\ res.out = NoAccess
    /\ "tech_partners" \in DOMAIN doc.group_wrapped_keys
    /\ "AuditorCorp" \in groups["tech_partners"].members
    /\ GroupsOf(doc, "AuditorCorp") = {}

\* what the document shows to a reader who holds no key: its strings and
\* integers outside ciphertexts, hashes, signatures and public keys
WireFields == {"version", "transaction_id", "encrypted_transaction", "signatures",
               "wrapped_keys", "group_wrapped_keys", "transaction_hash"}
ClearStrings(d) ==
    {d.version, d.signatures.seller.company}
    \cup (IF d.signatures.buyer = None THEN {} ELSE {d.signatures.buyer.company})
    \cup Envelopes(d)
    \cup DOMAIN d.group_wrapped_keys
    \cup UNION {DOMAIN d.group_wrapped_keys[g].members : g \in DOMAIN d.group_wrapped_keys}
    \cup {d[f] : f \in DOMAIN d \ WireFields}
ClearIntegers(d) == {d.transaction_id}
\* the plaintext fields whose value the document shows
ClearFields(d, T) ==
    {f \in DOMAIN T.val \cap {"seller", "buyer", "product"} : T.val[f] \in ClearStrings(d)}
    \cup {f \in DOMAIN T.val \cap {"id", "timestamp", "units", "amount"} :
             T.val[f] \in ClearIntegers(d)}

FieldRank(k) == CHOOSE i \in 1..Len(SortedFields) : SortedFields[i] = k
\* text is the JSON encoding of dict T with its keys in ascending order
IsSortedEncoding(text, T) ==
    /\ text.text_val = T.val
    /\ Range(text.text_keys) = DOMAIN T.val
    /\ Len(text.text_keys) = Cardinality(DOMAIN T.val)
    /\ \A i, j \in 1..Len(text.text_keys) :
          i < j => FieldRank(text.text_keys[i]) < FieldRank(text.text_keys[j])

\* C9: transaction_hash is the SHA-256 of the sorted-key JSON encoding of the
\* plaintext, that encoding is what was encrypted, and transaction_id is the
\* plaintext's id.
C9_HashStability ==
    doc # NoDoc =>
        LET hashed == b64decode(doc.transaction_hash).sha256
        IN  /\ IsSortedEncoding(hashed, tx)
            /\ b64decode(doc.encrypted_transaction.ciphertext).data = hashed
            /\ doc.transaction_id = tx.val["id"]

C9_Witness ==
    /\ res.op = "protect" /\ res.out = Returned
    /\ doc.transaction_id = 1
    /\ tx.keys = FileOrder

SellerOf(d) == d.signatures.seller.company
SignedByBuyer(d) == d.signatures.buyer # None /\ d.signatures.buyer.company = tx.val["buyer"]

\* C10 as stated: with the seller's signing public key in the key store check
\* reports the seller signature valid, and after buyer_sign by the buyer it
\* reports both signatures valid and valid = true.
C10_AsStated ==
    (Checked /\ SellerOf(doc) \in res.keys)
        => /\ res.out.details.seller_signature = "valid"
           /\ SignedByBuyer(doc) =>
                 /\ res.out.details.buyer_signature = "valid"
                 /\ res.out.valid

\* C10: with the seller's signing public key in the key store check reports the
\* seller signature valid; after buyer_sign by the buyer it reports valid = true,
\* and the buyer signature valid when the buyer's signing public key is in the
\* key store too (cannot_verify when it is not).
C10_SignatureValidity ==
    (Checked /\ SellerOf(doc) \in res.keys)
        => /\ res.out.details.seller_signature = "valid"
           /\ SignedByBuyer(doc) =>
                 /\ res.out.valid
                 /\ res.out.details.buyer_signature =
                        IF tx.val["buyer"] \in res.keys THEN "valid" ELSE "cannot_verify"

C10_Witness ==
    /\ Checked /\ SignedByBuyer(doc)
    /\ res.out.details.seller_signature = "valid"
    /\ res.out.details.buyer_signature = "valid"
    /\ res.out.valid

----------------------------------------------------------------------------
(* Properties of check and unprotect on an altered document *)

Signer(role) == doc.signatures[role].company
Signed(role) == doc.signatures[role] # None
\* what check reports for an intact signature
Intact(role) == IF Signer(role) \in res.keys THEN "valid" ELSE "cannot_verify"
\* the companies the document grants access to, by envelope or by group entry
Authorized(d) ==
    Envelopes(d) \cup UNION {DOMAIN d.group_wrapped_keys[g].members : g \in DOMAIN d.group_wrapped_keys}

\* C11: with one byte of encrypted_transaction.ciphertext altered, and nothing
\* else, check reports the signatures as it does for the intact document (valid
\* when the signer's key is known, no error, valid = true), and unprotect run by
\* any company the document grants access to raises CryptoError.
C11_CiphertextTamper ==
    tampering = {"ciphertext"} =>
        /\ Checked =>
              /\ res.out.valid /\ res.out.errors = <<>>
              /\ res.out.details.seller_signature = Intact("seller")
              /\ Signed("buyer") => res.out.details.buyer_signature = Intact("buyer")
        /\ (Unprotected /\ res.who \in Authorized(doc) /\ res.who \in res.keys)
              => res.out = CryptoError

\* the same for the companies that have an envelope of their own in wrapped_keys
C11_CiphertextTamperIndividual ==
    tampering = {"ciphertext"} =>
        /\ Checked =>
              /\ res.out.valid /\ res.out.errors = <<>>
              /\ res.out.details.seller_signature = Intact("seller")
              /\ Signed("buyer") => res.out.details.buyer_signature = Intact("buyer")
        /\ (Unprotected /\ res.who \in Envelopes(doc) /\ res.who \in res.keys)
              => res.out = CryptoError

\* the signatures a change of transaction_hash or of a signature makes stale
SignatureFields == {"transaction_hash", "seller_signature", "buyer_signature"}
Affected(role) ==
    /\ Signed(role)
    /\ "transaction_hash" \in tampering \/ (role \o "_signature") \in tampering

\* C12 as stated: when transaction_hash or a signature has been altered, check
\* reports every affected signature "invalid", has an error and valid = false.
C12_AsStated ==
    (Checked /\ tampering # {} /\ tampering \subseteq SignatureFields) =>
        /\ \A role \in {"seller", "buyer"} :
              Affected(role) => res.out.details[role \o "_signature"] = "invalid"
        /\ res.out.errors # <<>>
        /\ ~res.out.valid

\* C12: when transaction_hash or a signature has been altered, check reports an
\* affected signature "invalid" if the signer's public key is in the key store
\* and "cannot_verify" if it is not; it has an error and valid = false exactly
\* when some affected signature's signer is in the key store.
C12_TamperDetected ==
    (Checked /\ tampering # {} /\ tampering \subseteq SignatureFields) =>
        LET detected == {role \in {"seller", "buyer"} : Affected(role) /\ Signer(role) \in res.keys}
        IN  /\ \A role \in {"seller", "buyer"} :
                  Affected(role) =>
                      res.out.details[role \o "_signature"] =
                          IF Signer(role) \in res.keys THEN "invalid" ELSE "cannot_verify"
            /\ res.out.valid <=> detected = {}
            /\ Len(res.out.errors) = Cardinality(detected)

\* both signatures of a countersigned document went stale with the hash
C12_Witness ==
    /\ Checked /\ tampering = {"transaction_hash"}
    /\ Signed("buyer")
    /\ res.out.details.seller_signature = "invalid"
    /\ res.out.details.buyer_signature = "invalid"
    /\ ~res.out.valid

\* the caller's matching envelope has been altered
MatchedEnvelopeAltered(c) ==
    IF c \in Envelopes(doc)
    THEN ("wrapped_key:" \o c) \in tampering
    ELSE GroupsOf(doc, c) # {} /\ ("group_wrapped_key:" \o c) \in tampering

\* C13: unprotect run by a company whose matching envelope fails tag
\* verification raises CryptoError: not no-access, not the outcome of another
\* path, whatever group entries the company also has.
C13_NoFallThrough ==
    (Unprotected /\ res.who \in res.keys /\ MatchedEnvelopeAltered(res.who))
        => res.out = CryptoError

\* a recipient with an altered envelope of its own and an intact group entry
C13_Witness ==
    /\ Unprotected /\ res.who = "AuditorCorp" /\ res.who \in res.keys
    /\ "AuditorCorp" \in Envelopes(doc)
    /\ GroupsOf(doc, "AuditorCorp") # {}
    /\ tampering = {"wrapped_key:AuditorCorp"}
    /\ res.out = CryptoError

\* C29: in every report of check, valid is false exactly when errors is not
\* empty, whatever warnings there are.
C29_ValidIffNoErrors ==
    Checked => (~res.out.valid <=> res.out.errors # <<>>)

\* a report with one error, from the shape of encrypted_transaction, and warnings
C29_Witness ==
    /\ Checked /\ "no_nonce" \in tampering
    /\ ~res.out.valid
    /\ res.out.errors = <<"Encrypted transaction missing required fields">>
    /\ res.out.warnings # <<>>

\* the alterations that touch group entries only
GroupMarks == {"group_wrapped_key:" \o m : m \in MemberNames}

\* C27: unprotect run by a company that has an entry in wrapped_keys and is a
\* member of a group entry returns the plaintext with access_method
\* "individual"; the group entries are not consulted, so an altered member
\* envelope makes no difference.
C27_IndividualFirst ==
    (/\ Unprotected /\ res.who \in res.keys
     /\ res.who \in Envelopes(doc) /\ GroupsOf(doc, res.who) # {}
     /\ tampering \subseteq GroupMarks)
        => res.out = [transaction |-> json_loads(json_dumps_sorted(tx)),
                      access_method |-> "individual",
                      verified |-> TRUE]

\* a recipient that is also a group member, its member envelope altered
C27_Witness ==
    /\ Unprotected /\ res.who = "AuditorCorp" /\ res.who \in res.keys
    /\ "AuditorCorp" \in Envelopes(doc)
    /\ GroupsOf(doc, "AuditorCorp") = {"tech_partners"}
    /\ tampering = {"group_wrapped_key:AuditorCorp"}
    /\ ~IsError(res.out) /\ res.out.access_method = "individual"

\* C14: for a document without a seller signature check records "Seller
\* signature missing", sets valid = false, and goes on: the report carries the
\* buyer signature's status and both counts.
C14_MissingSellerSignature ==
    (Checked /\ HasHash(doc) /\ "signatures" \in DOMAIN doc /\ ~Signed("seller")) =>
        /\ ~res.out.valid
        /\ "Seller signature missing" \in Range(res.out.errors)
        /\ "seller_signature" \notin DOMAIN res.out.details
        /\ "buyer_signature" \in DOMAIN res.out.details
        /\ res.out.details.buyer_signature =
               IF ~Signed("buyer") THEN "missing"
               ELSE IF Signer("buyer") \notin res.keys THEN "cannot_verify"
               ELSE IF Affected("buyer") THEN "invalid" ELSE "valid"
        /\ res.out.details.individual_recipients = Cardinality(DOMAIN doc.wrapped_keys)
        /\ res.out.details.groups = Cardinality(DOMAIN doc.group_wrapped_keys)

\* the seller signature was taken off a countersigned document
C14_Witness ==
    /\ Checked /\ tampering = {"no_seller_signature"}
    /\ Signed("buyer")
    /\ res.out.details.buyer_signature = "valid"
    /\ ~res.out.valid

\* a statement of check raises on this document
RaisesInside(d) ==
    \/ ~HasHash(d)
    \/ "signatures" \notin DOMAIN d
    \/ d.signatures.seller # None /\ IsError(b64decode(d.signatures.seller.signature))
    \/ "encrypted_transaction" \notin DOMAIN d

\* C15: check returns a report with valid, errors, warnings and details for
\* every document, and a failure inside it is an entry of errors, with valid =
\* false.
C15_CheckNeverRaises ==
    Checked =>
        /\ ~IsError(res.out)
        /\ DOMAIN res.out = {"valid", "errors", "warnings", "details"}
        /\ RaisesInside(doc) =>
              /\ ~res.out.valid
              /\ \E i \in 1..Len(res.out.errors) :
                    res.out.errors[i] \in {"Verification error: KeyError",
                                           "Verification error: binascii.Error"}

\* documents without a hash, with a hash that is not base64, without signatures
C15_Witness ==
    /\ Checked /\ RaisesInside(doc)
    /\ "no_signatures" \in tampering
    /\ "seller_signature" \notin DOMAIN res.out.details
    /\ ~res.out.valid

\* C16: an absent buyer signature, a signer whose public key is not in the key
\* store and a version other than "1.0" each give a warning and the status
\* "missing" / "cannot_verify", and valid stays true when nothing else is wrong.
C16_NonFatalFindings ==
    (Checked /\ tampering \subseteq {"version"}) =>
        /\ res.out.valid /\ res.out.errors = <<>>
        /\ res.out.details.seller_signature = Intact("seller")
        /\ res.out.details.buyer_signature =
               IF Signed("buyer") THEN Intact("buyer") ELSE "missing"
        /\ Len(res.out.warnings) =
               (IF "version" \in tampering THEN 1 ELSE 0)
               + (IF Signer("seller") \in res.keys THEN 0 ELSE 1)
               + (IF Signed("buyer") /\ Signer("buyer") \in res.keys THEN 0 ELSE 1)
        /\ "version" \in tampering => res.out.warnings[1] = "Unknown version"
        /\ ~Signed("buyer") =>
              res.out.warnings[Len(res.out.warnings)] = "Buyer signature not yet added"

\* all three at once: version "2.0", seller's key unknown, no buyer signature
C16_Witness ==
    /\ Checked /\ tampering = {"version"}
    /\ ~Signed("buyer")
    /\ Signer("seller") \notin res.keys
    /\ Len(res.out.warnings) = 3
    /\ res.out.valid


----------------------------------------------------------------------------
(* Properties of protect *)

\* the step is a protect call (a call that repeats the last one changes nothing)
ProtectStep == res'.op = "protect" /\ res' # res
Valid(T, seller_name, buyer_name) ==
    /\ \A f \in required_fields : Has(T, f)
    /\ T.val["seller"] = seller_name
    /\ T.val["buyer"] = buyer_name
\* the three keys protect cannot do without
MandatoryKeys(call) ==
    /\ call.who \in call.key_manager
    /\ call.who \in call.keys
    /\ call.buyer_name \in call.keys

\* C17: protect raises ProtectionError, naming the first missing field, for a
\* plaintext without a required field, and a seller / buyer name mismatch error
\* when that field differs from the argument; the caller gets no document (the
\* one it holds is the one it had), whatever keys it has.
C17_Validation ==
    [][ProtectStep =>
          LET T == res'.transaction_data
              lacks == \E f \in required_fields : ~Has(T, f)
          IN  /\ lacks =>
                    /\ res'.out = Error("ProtectionError",
                                        "Missing required field: " \o first_missing(T))
                    /\ doc' = doc /\ tx' = tx
              /\ (~lacks /\ T.val["seller"] # res'.who) =>
                    /\ res'.out = Error("ProtectionError", "Seller name mismatch: "
                                            \o res'.who \o " vs " \o T.val["seller"])
                    /\ doc' = doc /\ tx' = tx
              /\ (~lacks /\ T.val["seller"] = res'.who /\ T.val["buyer"] # res'.buyer_name) =>
                    /\ res'.out = Error("ProtectionError", "Buyer name mismatch: "
                                            \o res'.buyer_name \o " vs " \o T.val["buyer"])
                    /\ doc' = doc /\ tx' = tx]_vars

\* a plaintext without "seller", protected under another seller name, after a
\* document had been issued
C17_Witness ==
    /\ res.op = "protect"
    /\ ~Has(res.transaction_data, "seller") /\ res.who = "AuditorCorp"
    /\ res.out = Error("ProtectionError", "Missing required field: seller")
    /\ doc # NoDoc

\* C18: for a valid plaintext with the mandatory keys at hand protect returns a
\* document whatever the optional inputs: wrapped_keys has entries for exactly
\* the seller, the buyer and the recipients the key store knows;
\* group_wrapped_keys for exactly the requested groups the directory knows,
\* each with entries for exactly its current members the key store knows.
C18_OptionalPathsSkipped ==
    [][(/\ ProtectStep
        /\ Valid(res'.transaction_data, res'.who, res'.buyer_name)
        /\ MandatoryKeys(res')) =>
          /\ res'.out = Returned
          /\ Envelopes(doc') =
                {res'.who, res'.buyer_name} \cup (res'.recipients \cap res'.keys)
          /\ DOMAIN doc'.group_wrapped_keys = {g \in res'.groups : groups[g].exists}
          /\ \A g \in DOMAIN doc'.group_wrapped_keys :
                DOMAIN doc'.group_wrapped_keys[g].members = groups[g].members \cap res'.keys]_vars

\* a recipient and group member without public key: a document with a group
\* entry that has no member envelope
C18_Witness ==
    /\ res.op = "protect" /\ res.out = Returned
    /\ res.recipients = {"AuditorCorp"} /\ "AuditorCorp" \notin res.keys
    /\ "AuditorCorp" \notin Envelopes(doc)
    /\ "tech_partners" \in DOMAIN doc.group_wrapped_keys
    /\ DOMAIN doc.group_wrapped_keys["tech_partners"].members = {}

\* C19: when the seller's signing private key, the seller's encryption public
\* key or the buyer's encryption public key is missing protect raises and the
\* caller gets no document; otherwise, for a valid plaintext, it returns a
\* document with all seven fields.
C19_Atomic ==
    [][(ProtectStep /\ Valid(res'.transaction_data, res'.who, res'.buyer_name)) =>
          IF MandatoryKeys(res')
          THEN /\ res'.out = Returned
               /\ DOMAIN doc' = WireFields
               /\ doc'.version = "1.0"
               /\ doc'.transaction_id = res'.transaction_data.val["id"]
               /\ DOMAIN doc'.encrypted_transaction = {"ciphertext", "nonce"}
               /\ doc'.signatures.seller.company = res'.who
               /\ verify_signature(signing_public_key(res'.who),
                                   b64decode(doc'.signatures.seller.signature),
                                   b64decode(doc'.transaction_hash))
               /\ {res'.who, res'.buyer_name} \subseteq Envelopes(doc')
               /\ tx' = res'.transaction_data
          ELSE /\ IsError(res'.out)
               /\ res'.out.error =
                     IF res'.who \notin res'.key_manager THEN "FileNotFoundError" ELSE "KeyError"
               /\ doc' = doc /\ tx' = tx]_vars

\* the buyer's public key was missing: an error, and no document
C19_Witness ==
    /\ res.op = "protect"
    /\ Valid(res.transaction_data, res.who, res.buyer_name)
    /\ res.who \in res.key_manager /\ res.who \in res.keys
    /\ res.buyer_name \notin res.keys
    /\ IsError(res.out)
    /\ doc = NoDoc

\* the key the document's transaction is encrypted under
TransactionKey(d) == b64decode(d.encrypted_transaction.ciphertext).aead_key

\* C20: a document protect returned has wrapped_keys entries for the seller and
\* the buyer, each opening with that company's encryption private key to the
\* key the transaction is encrypted under, and signatures.buyer is null.
C20_SellerAndBuyerEnvelopes ==
    (res.op = "protect" /\ res.out = Returned) =>
        /\ \A c \in {res.who, res.buyer_name} :
              /\ c \in Envelopes(doc)
              /\ unwrap_key_x25519(encryption_private_key(c), doc.wrapped_keys[c])
                     = TransactionKey(doc)
        /\ decrypt_aes_gcm(TransactionKey(doc), doc.encrypted_transaction)
               = json_dumps_sorted(tx)
        /\ doc.signatures.buyer = None

C20_Witness ==
    /\ res.op = "protect" /\ res.out = Returned
    /\ Envelopes(doc) = {"SellerCo", "BuyerCo"}
    /\ doc.signatures.buyer = None
    /\ doc.transaction_id = 2


\* C21: every group entry of a document protect returned has a data_key_bridge
\* field, which decrypts under the group's derived key to the key the
\* transaction is encrypted under.
C21_DataKeyBridge ==
    (res.op = "protect" /\ res.out = Returned) =>
        \A g \in DOMAIN doc.group_wrapped_keys :
            /\ "data_key_bridge" \in DOMAIN doc.group_wrapped_keys[g]
            /\ decrypt_aes_gcm(derive_group_key(TransactionKey(doc), g, str(doc.transaction_id)),
                               doc.group_wrapped_keys[g].data_key_bridge)
                   = TransactionKey(doc)

\* C26: in a document protect returns, the members of every group entry are
\* the members the group server has at the time of that call whose public key
\* the key store knows, and every member envelope opens with the member's
\* private key to HKDF(K_T, info = "group:{group_id}:tx:{id}").
C26_GroupSnapshot ==
    [][(ProtectStep /\ res'.out = Returned) =>
          \A g \in DOMAIN doc'.group_wrapped_keys :
              /\ DOMAIN doc'.group_wrapped_keys[g].members = groups[g].members \cap res'.keys
              /\ \A m \in DOMAIN doc'.group_wrapped_keys[g].members :
                    unwrap_key_x25519(encryption_private_key(m),
                                      doc'.group_wrapped_keys[g].members[m])
                       = HKDF(<<"group:", g, ":tx:", str(res'.transaction_data.val["id"])>>,
                              TransactionKey(doc'))]_vars

\* a group entry for the two members the group has by now
C26_Witness ==
    /\ res.op = "protect" /\ res.out = Returned
    /\ "tech_partners" \in DOMAIN doc.group_wrapped_keys
    /\ DOMAIN doc.group_wrapped_keys["tech_partners"].members = {"AuditorCorp", "BuyerCo"}
    /\ groups["tech_partners"].members = {"AuditorCorp", "BuyerCo"}

----------------------------------------------------------------------------
(* app/db.py, table transactions: transaction_id is UNIQUE, buyer_signed   *)
(* defaults to FALSE, protected_document is the JSON text of the document. *)

\* json.dumps(protected_document) and json.loads(row['protected_document'])
document_text(d) == [json_text |-> d]
document_of(t) == t.json_text

\* Database.get_transaction: the row with its document parsed, or None
get_transaction(table, transaction_id) ==
    IF transaction_id \in DOMAIN table /\ table[transaction_id] # NoRow
    THEN [table[transaction_id] EXCEPT !.protected_document = document_of(@)]
    ELSE None

\* Database.create_transaction: the INSERT, which the UNIQUE constraint refuses
\* for a transaction_id that has a row
db_create_transaction(table, transaction_id, protected_document, seller, buyer) ==
    IF table[transaction_id] # NoRow
    THEN Error("UniqueViolation", "duplicate key value violates unique constraint")
    ELSE [table |-> [table EXCEPT ![transaction_id] =
             [transaction_id |-> transaction_id,
              protected_document |-> document_text(protected_document),
              seller |-> seller,
              buyer |-> buyer,
              buyer_signed |-> FALSE]]]

\* the UPDATE without buyer_signed = TRUE
update_document_only(table, transaction_id, protected_document) ==
    [table EXCEPT ![transaction_id].protected_document = document_text(protected_document)]

\* Database.update_transaction_buyer_signature
update_transaction_buyer_signature(table, transaction_id, protected_document) ==
    [table EXCEPT ![transaction_id].protected_document = document_text(protected_document),
                  ![transaction_id].buyer_signed = TRUE]

----------------------------------------------------------------------------
(* app/main.py: the storage service.  Each request is answered in one step. *)

Response(op, transaction_id, status_code) ==
    [seq |-> seq + 1, op |-> op, transaction_id |-> transaction_id, status_code |-> status_code]

Answer(op, transaction_id, status_code, table) ==
    /\ seq < MaxRequests
    /\ seq' = seq + 1
    /\ resp' = Response(op, transaction_id, status_code)
    /\ db' = table
    /\ UNCHANGED <<libvars, sharevars, pending>>

\* POST /transactions without the look-up for an existing row
create_transaction_unchecked(protected_document) ==
    LET transaction_id == protected_document.transaction_id
        seller == protected_document.signatures.seller.company
        buyer_sig == protected_document.signatures.buyer
        buyer == IF buyer_sig # None THEN buyer_sig.company ELSE "None"
        stored == db_create_transaction(db, transaction_id, protected_document, seller, buyer)
    IN  IF transaction_id = 0
        THEN Answer("create_transaction", transaction_id, 400, db)
        ELSE IF IsError(stored)
        THEN Answer("create_transaction", transaction_id, 500, db)
        ELSE Answer("create_transaction", transaction_id, 201, stored.table)

\* POST /transactions
create_transaction(protected_document) ==
    LET transaction_id == protected_document.transaction_id
        seller == protected_document.signatures.seller.company
        buyer_sig == protected_document.signatures.buyer
        buyer == IF buyer_sig # None THEN buyer_sig.company ELSE "None"
        stored == db_create_transaction(db, transaction_id, protected_document, seller, buyer)
    IN  IF transaction_id = 0
        THEN Answer("create_transaction", transaction_id, 400, db)
        ELSE IF get_transaction(db, transaction_id) # None
        THEN Answer("create_transaction", transaction_id, 409, db)
        ELSE IF IsError(stored)
        THEN Answer("create_transaction", transaction_id, 500, db)
        ELSE Answer("create_transaction", transaction_id, 201, stored.table)

\* buyer_sign_transaction that builds the signatures object anew
buyer_sign_transaction_resetting(transaction_id, buyer_signature) ==
    LET transaction == get_transaction(db, transaction_id)
    IN  IF transaction = None
        THEN Answer("buyer_sign", transaction_id, 404, db)
        ELSE IF transaction.buyer_signed
        THEN Answer("buyer_sign", transaction_id, 409, db)
        ELSE Answer("buyer_sign", transaction_id, 200,
                    update_transaction_buyer_signature(db, transaction_id,
                        [transaction.protected_document EXCEPT
                            !.signatures = [seller |-> None, buyer |-> buyer_signature]]))

\* POST /transactions/{transaction_id}/buyer_sign
buyer_sign_transaction(transaction_id, buyer_signature) ==
    LET transaction == get_transaction(db, transaction_id)
    IN  IF transaction = None
        THEN Answer("buyer_sign", transaction_id, 404, db)
        ELSE IF transaction.buyer_signed
        THEN Answer("buyer_sign", transaction_id, 409, db)
        ELSE Answer("buyer_sign", transaction_id, 200,
                    update_transaction_buyer_signature(db, transaction_id,
                        [transaction.protected_document EXCEPT
                            !.signatures.buyer = buyer_signature]))

\* the documents a seller or buyer client uploads: protect's output for each
\* transaction, as issued or after buyer_sign by the buyer
IssuedDocs ==
    {protect(Transaction(i), "SellerCo", "BuyerCo", Companies, Companies, rc, {},
             [g \in GroupIds |-> NoGroup], "r1") : i \in TxIds, rc \in RecipientLists}
UploadDocs == IssuedDocs \cup {buyer_sign(d, "BuyerCo", Companies) : d \in IssuedDocs}
\* the buyer_signature bodies a client sends
BuyerSignatures ==
    {buyer_sign(d, b, Companies).signatures.buyer : d \in IssuedDocs, b \in BuyerNames}

NextApp ==
    \/ \E d \in UploadDocs : create_transaction(d)
    \/ \E i \in TxIds, sig \in BuyerSignatures : buyer_sign_transaction(i, sig)

SpecApp == Init /\ [][NextApp]_vars

----------------------------------------------------------------------------
(* Share records: tables share_records and group_share_records of          *)
(* app/db.py, the two share requests of app/main.py and the buyer client   *)
(* that issues them.                                                       *)

\* Database.create_share_record with the record of the same transaction, sharer
\* and recipient replaced instead of a new one added
create_share_record_upsert(table, transaction_id, shared_by, shared_with, signature) ==
    LET row == [id |-> Len(table) + 1, transaction_id |-> transaction_id,
                shared_by |-> shared_by, shared_with |-> shared_with,
                share_type |-> "individual", signature |-> signature]
        same(k) == /\ table[k].transaction_id = transaction_id
                   /\ table[k].shared_by = shared_by
                   /\ table[k].shared_with = shared_with
    IN  IF \E k \in 1..Len(table) : same(k)
        THEN [k \in 1..Len(table) |-> IF same(k) THEN [row EXCEPT !.id = k] ELSE table[k]]
        ELSE Append(table, row)

\* Database.create_share_record: the INSERT; id is the table's serial
create_share_record(table, transaction_id, shared_by, shared_with, signature) ==
    Append(table, [id |-> Len(table) + 1, transaction_id |-> transaction_id,
                   shared_by |-> shared_by, shared_with |-> shared_with,
                   share_type |-> "individual", signature |-> signature])

\* Database.create_group_share_record
create_group_share_record(table, transaction_id, shared_by, group_id, signature) ==
    Append(table, [id |-> Len(table) + 1, transaction_id |-> transaction_id,
                   shared_by |-> shared_by, group_id |-> group_id,
                   signature |-> signature])

\* Database.get_share_records and get_group_share_records
get_share_records(table, transaction_id) ==
    SelectSeq(table, LAMBDA row : row.transaction_id = transaction_id)

\* the {transaction_id} of a request path, as FastAPI converts it to int
int_path(segment) == segment.str

\* POST /transactions/{transaction_id}/share
share_transaction(transaction_id, share) ==
    /\ seq < MaxRequests
    /\ seq' = seq + 1
    /\ IF get_transaction(db, transaction_id) = None
       THEN /\ resp' = Response("share", transaction_id, 404)
            /\ UNCHANGED sharevars
       ELSE /\ resp' = Response("share", transaction_id, 200)
            /\ share_records' = create_share_record(share_records, transaction_id,
                                    share.shared_by, share.shared_with, share.signature)
            /\ UNCHANGED group_share_records
    /\ UNCHANGED <<libvars, db, pending>>

\* POST /transactions/{transaction_id}/share_group
share_transaction_group(transaction_id, share) ==
    /\ seq < MaxRequests
    /\ seq' = seq + 1
    /\ IF get_transaction(db, transaction_id) = None
       THEN /\ resp' = Response("share_group", transaction_id, 404)
            /\ UNCHANGED sharevars
       ELSE /\ resp' = Response("share_group", transaction_id, 200)
            /\ group_share_records' = create_group_share_record(group_share_records,
                                          transaction_id, share.shared_by, share.group_id,
                                          share.signature)
            /\ UNCHANGED share_records
    /\ UNCHANGED <<libvars, db, pending>>

\* share_with_individual that signs the record itself, not its hash
share_with_individual_unhashed(buyer_name, km, transaction_id, recipient) ==
    LET share_record == Dict(<<"transaction_id", "shared_by", "shared_with">>,
                             [transaction_id |-> transaction_id, shared_by |-> buyer_name,
                              shared_with |-> recipient])
        share_record_bytes == json_dumps_sorted(share_record)
        signing_key == load_signing_private_key(km, buyer_name)
    IN  IF IsError(signing_key) THEN signing_key
        ELSE [path |-> str(transaction_id),
              json |-> [shared_by |-> buyer_name, shared_with |-> recipient,
                        signature |-> b64encode(sign_data(signing_key, share_record_bytes))]]

\* BuyerClient.share_with_individual: the request it sends, or the exception
\* of the key manager
share_with_individual(buyer_name, km, transaction_id, recipient) ==
    LET share_record == Dict(<<"transaction_id", "shared_by", "shared_with">>,
                             [transaction_id |-> transaction_id, shared_by |-> buyer_name,
                              shared_with |-> recipient])
        share_record_bytes == json_dumps_sorted(share_record)
        share_hash == hash_data(share_record_bytes)
        signing_key == load_signing_private_key(km, buyer_name)
    IN  IF IsError(signing_key) THEN signing_key
        ELSE [path |-> str(transaction_id),
              json |-> [shared_by |-> buyer_name, shared_with |-> recipient,
                        signature |-> b64encode(sign_data(signing_key, share_hash))]]

\* BuyerClient.share_with_group
share_with_group(buyer_name, km, transaction_id, group_id) ==
    LET share_record == Dict(<<"transaction_id", "shared_by", "group_id">>,
                             [transaction_id |-> transaction_id, shared_by |-> buyer_name,
                              group_id |-> group_id])
        share_record_bytes == json_dumps_sorted(share_record)
        share_hash == hash_data(share_record_bytes)
        signing_key == load_signing_private_key(km, buyer_name)
    IN  IF IsError(signing_key) THEN signing_key
        ELSE [path |-> str(transaction_id),
              json |-> [shared_by |-> buyer_name, group_id |-> group_id,
                        signature |-> b64encode(sign_data(signing_key, share_hash))]]

\* a client shares: the request reaches the service unless the client's key
\* manager raised
ShareWithIndividual(buyer_name, km, transaction_id, recipient) ==
    LET request == share_with_individual(buyer_name, km, transaction_id, recipient)
    IN  /\ ~IsError(request)
        /\ share_transaction(int_path(request.path), request.json)

ShareWithGroup(buyer_name, km, transaction_id, group_id) ==
    LET request == share_with_group(buyer_name, km, transaction_id, group_id)
    IN  /\ ~IsError(request)
        /\ share_transaction_group(int_path(request.path), request.json)

\* the companies that share and the companies they share with
Sharers == {"BuyerCo", "SellerCo"}
ShareRecipients == {"AuditorCorp"}
\* the documents in store when shares are made
SharedDocs ==
    {protect(Transaction(i), "SellerCo", "BuyerCo", Companies, Companies, {}, {},
             [g \in GroupIds |-> NoGroup], "r1") : i \in TxIds}

NextShare ==
    \/ \E d \in SharedDocs : create_transaction(d)
    \/ \E i \in TxIds : buyer_sign_transaction(i, buyer_sign(CHOOSE d \in SharedDocs : d.transaction_id = i,
                                                              "BuyerCo", Companies).signatures.buyer)
    \/ \E b \in Sharers, km \in KeyManagers, i \in TxIds, rc \in ShareRecipients :
          ShareWithIndividual(b, km, i, rc)
    \/ \E b \in Sharers, km \in KeyManagers, i \in TxIds, g \in GroupIds :
          ShareWithGroup(b, km, i, g)

SpecShare == Init /\ [][NextShare]_vars

----------------------------------------------------------------------------
(* app/main.py under concurrent requests.  The handlers are plain def      *)
(* functions, which FastAPI runs on threads of a pool; every Database      *)
(* method is a transaction of its own (db.py:37-48), so a handler's        *)
(* look-up and its write are two steps other requests can come between.    *)

InFlight == Cardinality({w \in Workers : pending[w] # None})

\* worker w answers its request
Reply(w, op, transaction_id, status_code, table) ==
    /\ seq' = seq + 1
    /\ resp' = Response(op, transaction_id, status_code)
    /\ db' = table
    /\ pending' = [pending EXCEPT ![w] = None]
    /\ UNCHANGED <<libvars, sharevars>>

\* worker w goes on to the write of its handler
Proceed(w, request) ==
    /\ pending' = [pending EXCEPT ![w] = request]
    /\ UNCHANGED <<libvars, db, seq, resp, sharevars>>

\* POST /transactions up to the look-up for an existing row
create_transaction_look_up(w, protected_document) ==
    /\ pending[w] = None
    /\ seq + InFlight < MaxRequests
    /\ LET transaction_id == protected_document.transaction_id
           seller == protected_document.signatures.seller.company
           buyer_sig == protected_document.signatures.buyer
           buyer == IF buyer_sig # None THEN buyer_sig.company ELSE "None"
       IN  IF transaction_id = 0
           THEN Reply(w, "create_transaction", transaction_id, 400, db)
           ELSE IF get_transaction(db, transaction_id) # None
           THEN Reply(w, "create_transaction", transaction_id, 409, db)
           ELSE Proceed(w, [op |-> "create_transaction", transaction_id |-> transaction_id,
                            protected_document |-> protected_document,
                            seller |-> seller, buyer |-> buyer])

\* POST /transactions from the INSERT on
create_transaction_insert(w) ==
    /\ pending[w] # None
    /\ pending[w].op = "create_transaction"
    /\ LET request == pending[w]
           stored == db_create_transaction(db, request.transaction_id,
                         request.protected_document, request.seller, request.buyer)
       IN  IF IsError(stored)
           THEN Reply(w, "create_transaction", request.transaction_id, 500, db)
           ELSE Reply(w, "create_transaction", request.transaction_id, 201, stored.table)

\* POST /transactions/{transaction_id}/buyer_sign up to the document with the
\* signature put in
buyer_sign_look_up(w, transaction_id, buyer_signature) ==
    /\ pending[w] = None
    /\ seq + InFlight < MaxRequests
    /\ LET transaction == get_transaction(db, transaction_id)
       IN  IF transaction = None
           THEN Reply(w, "buyer_sign", transaction_id, 404, db)
           ELSE IF transaction.buyer_signed
           THEN Reply(w, "buyer_sign", transaction_id, 409, db)
           ELSE Proceed(w, [op |-> "buyer_sign", transaction_id |-> transaction_id,
                            protected_document |->
                                [transaction.protected_document EXCEPT
                                    !.signatures.buyer = buyer_signature]])

\* POST /transactions/{transaction_id}/buyer_sign from the UPDATE on
buyer_sign_update(w) ==
    /\ pending[w] # None
    /\ pending[w].op = "buyer_sign"
    /\ LET request == pending[w]
       IN  Reply(w, "buyer_sign", request.transaction_id, 200,
                 update_transaction_buyer_signature(db, request.transaction_id,
                                                    request.protected_document))

\* the documents the seller client uploads and the signatures buyer clients send
ConcurrentDocs ==
    {protect(Transaction(i), "SellerCo", "BuyerCo", Companies, Companies, rc, {},
             [g \in GroupIds |-> NoGroup], "r1") : i \in TxIds, rc \in RecipientLists}
ConcurrentSignatures ==
    {buyer_sign(d, b, Companies).signatures.buyer : d \in ConcurrentDocs, b \in BuyerNames}

NextConcurrent ==
    \/ \E w \in Workers, d \in ConcurrentDocs : create_transaction_look_up(w, d)
    \/ \E w \in Workers : create_transaction_insert(w)
    \/ \E w \in Workers, i \in TxIds, sig \in ConcurrentSignatures : buyer_sign_look_up(w, i, sig)
    \/ \E w \in Workers : buyer_sign_update(w)

SpecConcurrent == Init /\ [][NextConcurrent]_vars

----------------------------------------------------------------------------
(* The clients between the library and the storage service: the seller     *)
(* client uploads the document protect returned, the buyer client signs    *)
(* the document and posts signatures.buyer.                                *)

\* SellerClient.create_transaction, after protect: the upload
UploadDocument ==
    /\ doc # NoDoc
    /\ create_transaction(doc)

\* BuyerClient.sign_transaction, after buyer_sign: the upload of the signature
UploadBuyerSignature ==
    /\ doc # NoDoc
    /\ doc.signatures.buyer # None
    /\ buyer_sign_transaction(doc.transaction_id, doc.signatures.buyer)

NextSign ==
    \/ \E g \in GroupIds : create_group(g, {"AuditorCorp"})
    \/ \E i \in TxIds, r \in Rands :
          DoProtect(Transaction(i), "SellerCo", "BuyerCo", Companies, Companies,
                    {"AuditorCorp"}, GroupIds, r)
    \/ DoBuyerSign("BuyerCo", Companies)
    \/ UploadDocument
    \/ UploadBuyerSignature

SpecSign == Init /\ [][NextSign]_vars

----------------------------------------------------------------------------
(* Properties of the storage service *)

\* the step answers a request of kind op for transaction_id
Answers(op, transaction_id) ==
    /\ resp'.seq = seq + 1
    /\ resp'.op = op
    /\ resp'.transaction_id = transaction_id

StoredDoc(table, transaction_id) == document_of(table[transaction_id].protected_document)

\* C6: a buyer_sign request answered 200 leaves the transaction marked as signed
\* by the buyer, the mark is never taken back, and every buyer_sign request for
\* a transaction so marked is answered 409 and leaves its row, the stored
\* protected document included, unchanged.
C6_SecondBuyerSignConflict ==
    [][\A i \in TxIds :
         /\ (Answers("buyer_sign", i) /\ resp'.status_code = 200)
                => (db'[i] # NoRow /\ db'[i].buyer_signed)
         /\ (db[i] # NoRow /\ db[i].buyer_signed)
                => /\ db'[i] # NoRow /\ db'[i].buyer_signed
                   /\ Answers("buyer_sign", i)
                        => (resp'.status_code = 409 /\ db'[i] = db[i])]_vars

\* a second buyer_sign request was refused after the first succeeded
C6_Witness ==
    /\ resp.op = "buyer_sign" /\ resp.status_code = 409
    /\ db[resp.transaction_id] # NoRow
    /\ db[resp.transaction_id].buyer_signed
    /\ StoredDoc(db, resp.transaction_id).signatures.buyer # None

\* C7: a buyer_sign request for a transaction whose stored protected document
\* has a non-null signatures.buyer is answered 409, however the signature got
\* there.
C7_RefusedWhenBuyerSignaturePresent ==
    [][\A i \in TxIds :
         (/\ db[i] # NoRow
          /\ StoredDoc(db, i).signatures.buyer # None
          /\ Answers("buyer_sign", i))
            => resp'.status_code = 409]_vars

\* C8: POST /transactions with a document whose transaction_id has a row is
\* answered 409 and the table, the row of that id included, is unchanged.
C8_DuplicateRejected ==
    [][\A i \in TxIds :
         (db[i] # NoRow /\ Answers("create_transaction", i))
            => (resp'.status_code = 409 /\ db' = db)]_vars

\* a POST /transactions for a stored id was refused
C8_Witness ==
    /\ resp.op = "create_transaction" /\ resp.status_code = 409
    /\ db[resp.transaction_id] # NoRow

\* C30: POST /transactions with a protected document whose transaction_id has
\* no row stores the document under that id and is answered 201, whatever the
\* integer.
C30_StoredUnderAnyId ==
    [][\A i \in TxIds :
         (db[i] = NoRow /\ Answers("create_transaction", i))
            => /\ resp'.status_code = 201
               /\ db'[i] # NoRow
               /\ StoredDoc(db', i).transaction_id = i]_vars

\* the rows of a table before the step are its first rows after it
Kept(table, table2) ==
    /\ Len(table2) >= Len(table)
    /\ \A k \in 1..Len(table) : table2[k] = table[k]

\* C22: the share tables only grow at their end: a share or share_group request
\* for a stored transaction is answered 200 and adds one record of that
\* transaction to its table, a request for an id without row is answered 404
\* and adds nothing, and no request changes or removes a record.
C22_AppendOnly ==
    [][/\ Kept(share_records, share_records')
       /\ Kept(group_share_records, group_share_records')
       /\ \A i \in TxIds :
            /\ Answers("share", i) =>
                 IF db[i] # NoRow
                 THEN /\ resp'.status_code = 200
                      /\ Len(share_records') = Len(share_records) + 1
                      /\ share_records'[Len(share_records')].transaction_id = i
                      /\ group_share_records' = group_share_records
                 ELSE /\ resp'.status_code = 404
                      /\ UNCHANGED sharevars
            /\ Answers("share_group", i) =>
                 IF db[i] # NoRow
                 THEN /\ resp'.status_code = 200
                      /\ Len(group_share_records') = Len(group_share_records) + 1
                      /\ group_share_records'[Len(group_share_records')].transaction_id = i
                      /\ share_records' = share_records
                 ELSE /\ resp'.status_code = 404
                      /\ UNCHANGED sharevars
            /\ Kept(get_share_records(share_records, i), get_share_records(share_records', i))
            /\ Kept(get_share_records(group_share_records, i),
                    get_share_records(group_share_records', i))]_vars

\* the same share was recorded twice, and a share of another transaction refused
C22_Witness ==
    /\ Len(share_records) = 2
    /\ share_records[1].transaction_id = share_records[2].transaction_id
    /\ share_records[1].shared_by = share_records[2].shared_by
    /\ resp.op = "share" /\ resp.status_code = 404

\* the auditor's verification: the hash of the canonical JSON of the row's
\* fields, against the signature under shared_by's signing public key
ShareVerifies(row, fields) ==
    verify_signature(signing_public_key(row.shared_by), b64decode(row.signature),
                     hash_data(json_dumps_sorted(
                         Dict(fields, [f \in Range(fields) |-> row[f]]))))

\* C23: every record the buyer client issued and the service stored verifies:
\* the hash of the canonical JSON of the stored transaction_id, shared_by and
\* shared_with (group_id for a group share) is what shared_by signed.
C23_ShareRecordVerifies ==
    /\ \A k \in 1..Len(share_records) :
          ShareVerifies(share_records[k], <<"transaction_id", "shared_by", "shared_with">>)
    /\ \A k \in 1..Len(group_share_records) :
          ShareVerifies(group_share_records[k], <<"transaction_id", "shared_by", "group_id">>)

\* records of two sharers and a group share in store
C23_Witness ==
    /\ Len(share_records) = 2
    /\ share_records[1].shared_by # share_records[2].shared_by
    /\ share_records[2].transaction_id = 2
    /\ Len(group_share_records) = 1

\* C24: of the buyer_sign requests for one stored transaction, however they
\* interleave, at most one is answered 200, and signatures.buyer of the stored
\* document, once a request has set it, keeps its value.
C24_OneBuyerSignature ==
    [][\A i \in TxIds :
         (db[i] # NoRow /\ db[i].buyer_signed) =>
            /\ ~(Answers("buyer_sign", i) /\ resp'.status_code = 200)
            /\ StoredDoc(db', i).signatures.buyer = StoredDoc(db, i).signatures.buyer]_vars

\* C25: of the POST /transactions requests that carry one transaction_id,
\* however they interleave, one stores its document and every request answered
\* when the id has a row is answered 409 and leaves the row as it is.
C25_ConcurrentDuplicates ==
    [][\A i \in TxIds :
         (db[i] # NoRow /\ Answers("create_transaction", i))
            => (resp'.status_code = 409 /\ db'[i] = db[i])]_vars

\* whatever the interleaving, a row, once stored, is not replaced by an upload
C25_OneDocumentStored ==
    [][\A i \in TxIds :
         (db[i] # NoRow /\ Answers("create_transaction", i)) => db'[i] = db[i]]_vars

\* the fields other than the buyer-signature slot
FrameFields == {"version", "transaction_id", "encrypted_transaction", "transaction_hash",
                "wrapped_keys", "group_wrapped_keys"}
SameButBuyerSlot(d, e) ==
    /\ DOMAIN e = DOMAIN d
    /\ \A f \in FrameFields : e[f] = d[f]
    /\ DOMAIN e.signatures = DOMAIN d.signatures
    /\ e.signatures.seller = d.signatures.seller

\* C28: buyer_sign of the library and a buyer_sign request answered 200 leave
\* version, transaction_id, encrypted_transaction, transaction_hash,
\* signatures.seller, wrapped_keys and group_wrapped_keys of the document (the
\* client's, the stored one) as they were.
C28_OnlyBuyerSlotChanges ==
    [][/\ (res'.op = "buyer_sign" /\ doc # NoDoc) => SameButBuyerSlot(doc, doc')
       /\ \A i \in TxIds :
            (Answers("buyer_sign", i) /\ resp'.status_code = 200)
               => SameButBuyerSlot(StoredDoc(db, i), StoredDoc(db', i))]_vars

\* signed by the buyer client and the signature stored: the stored document is
\* the client's, with group entries and an extra recipient
C28_Witness ==
    /\ res.op = "buyer_sign" /\ res.out = Returned
    /\ resp.op = "buyer_sign" /\ resp.status_code = 200
    /\ StoredDoc(db, resp.transaction_id) = doc
    /\ doc.signatures.buyer # None
    /\ DOMAIN doc.group_wrapped_keys # {}

====
